---- MODULE Spec2Model ----
(***************************************************************************)
(* A model of src/main.py: SitemapTester (parse_sitemap, test_single_url,  *)
(* run_test, generate_report) and main().                                  *)
(*                                                                         *)
(* The main thread of run_test and the worker threads of the               *)
(* ThreadPoolExecutor are separate processes of the model.  The executor's *)
(* work queue, the futures and the waiter of as_completed are state.       *)
(* Latencies are whole milliseconds.  Python's None is the empty sequence  *)
(* and a present value v is <<v>>.                                         *)
(***************************************************************************)
EXTENDS Integers, Sequences, FiniteSets, TLC

\* ---------------------------------------------------------------- bounds
\* The largest number of <url> entries of a sitemap document.
MaxUrls == 3
\* The largest max_workers a tester is constructed with.
MaxWorkers == 2
\* The longest results collection generate_report is applied to directly.
MaxResults == 3
\* The largest number of reporting run_test calls on one tester.
MaxRuns == 2

None == <<>>
Some(v) == <<v>>

\* The page addresses a sitemap names.
Urls == {"a", "b", "c"}

\* ------------------------------------------------------- sitemap document
\* A child element of the document root: a <url> with a <loc>, a <url>
\* without one, or an element that is no <url>.
Entries ==
    {[tag |-> "url", loc |-> Some(u)] : u \in Urls}
      \cup {[tag |-> "url", loc |-> None], [tag |-> "sitemap", loc |-> None]}

RunEntries == {e \in Entries : e.tag = "url"}

SeqsUpTo(S, n) == UNION {[1..k -> S] : k \in 0..n}

\* What session.get(sitemap_url) gives: an exception of the transport, or a
\* response with a status and a body, the body malformed or a document.
Statuses == {200, 301, 404}

Malformed == [wellformed |-> FALSE, root |-> <<>>]

Document(es) == [wellformed |-> TRUE, root |-> es]

Responses(entries, n) ==
    {[kind |-> "exception", status |-> 0, body |-> Malformed]}
      \cup {[kind |-> "response", status |-> s, body |-> b] :
              s \in Statuses,
              b \in {Malformed} \cup {Document(es) : es \in SeqsUpTo(entries, n)}}

\* A status check that raises for every status outside 200-299.
RaisesUnlessSuccess(status) == ~(200 <= status /\ status <= 299)

\* response.raise_for_status(): HTTPError for a 4xx or 5xx status.
RaisesForStatus(status) == 400 <= status /\ status < 600

\* A loop that takes the text of the <loc> of every <url>: a <url> without one
\* raises, and parse_sitemap returns [].
CollectLocsOfAll(es) ==
    IF \E i \in DOMAIN es : es[i].tag = "url" /\ es[i].loc = None THEN <<>>
    ELSE LET us == SelectSeq(es, LAMBDA e : e.tag = "url")
         IN  [i \in DOMAIN us |-> us[i].loc[1]]

\* The loop over root.findall('ns:url'): the <loc> text of each <url> that has
\* one, in document order.
RECURSIVE CollectLocs(_)
CollectLocs(es) ==
    IF es = <<>> THEN <<>>
    ELSE LET e == Head(es)
         IN  IF e.tag = "url" /\ e.loc # None
             THEN <<e.loc[1]>> \o CollectLocs(Tail(es))
             ELSE CollectLocs(Tail(es))

\* A parse_sitemap that does not look at the status of the response.
ParseSitemapAnyStatus(response) ==
    IF response.kind = "exception" THEN <<>>
    ELSE IF ~response.body.wellformed THEN <<>>
    ELSE CollectLocs(response.body.root)

\* parse_sitemap: [] on any exception, the list of URLs otherwise.
ParseSitemap(response) ==
    IF response.kind = "exception" THEN <<>>
    ELSE IF RaisesForStatus(response.status) THEN <<>>
    ELSE IF ~response.body.wellformed THEN <<>>
    ELSE CollectLocs(response.body.root)

\* ------------------------------------------------------------------ probe
TimeoutMessage == "request timed out"

\* What session.get(url) does in a worker: a response of some status after
\* some milliseconds, a requests Timeout, or another exception with its
\* message.  Page "a" answers, page "b" times out, page "c" refuses the
\* connection.
ProbeOutcomes(url) ==
    IF url = "a" THEN {[kind |-> "response", status |-> 200, ms |-> 100, msg |-> ""]}
    ELSE IF url = "b" THEN {[kind |-> "Timeout", status |-> 0, ms |-> 0, msg |-> ""]}
    ELSE {[kind |-> "Exception", status |-> 0, ms |-> 0, msg |-> "connection refused"]}

Result(url, response_time, status_code, success, error) ==
    [url |-> url, response_time |-> response_time, status_code |-> status_code,
     success |-> success, error |-> error]

\* What a future holds once its call is over: the value returned, or the
\* exception raised.
Returned(r) == [raised |-> FALSE, value |-> r]

Raised(msg) == [raised |-> TRUE, value |-> msg]

\* A probe that lets every exception of the request escape.
TestSingleUrlRaising(url, outcome) ==
    IF outcome.kind = "response"
    THEN Returned(Result(url, Some(outcome.ms), Some(outcome.status), TRUE, None))
    ELSE Raised(outcome.kind)

\* A probe that measures the time of a request that timed out as well.
TestSingleUrlTimingFailures(url, outcome) ==
    IF outcome.kind = "response"
    THEN Returned(Result(url, Some(outcome.ms), Some(outcome.status), TRUE, None))
    ELSE IF outcome.kind = "Timeout"
    THEN Returned(Result(url, Some(outcome.ms), None, FALSE, Some(TimeoutMessage)))
    ELSE Returned(Result(url, None, None, FALSE, Some(outcome.msg)))

\* test_single_url: every outcome becomes a returned result.
TestSingleUrl(url, outcome) ==
    IF outcome.kind = "response"
    THEN Returned(Result(url, Some(outcome.ms), Some(outcome.status), TRUE, None))
    ELSE IF outcome.kind = "Timeout"
    THEN Returned(Result(url, None, None, FALSE, Some(TimeoutMessage)))
    ELSE Returned(Result(url, None, None, FALSE, Some(outcome.msg)))

\* ------------------------------------------------------------------ state
VARIABLES
    max_workers,  \* self.max_workers
    response,     \* what the sitemap URL answers
    pc,           \* where the main thread is
    urls,         \* the list parse_sitemap returned
    futures,      \* the futures submitted, in submission order
    queue,        \* the executor's work queue: indices of futures
    worker,       \* worker thread -> index of the future it runs, 0 when idle
    waiting,      \* whether the waiter of as_completed is installed
    waiter,       \* waiter.finished_futures, in completion order
    finished,     \* as_completed's list of futures to yield, next first
    pending,      \* as_completed's set of futures not yet yielded or listed
    listed,       \* how many futures as_completed found finished on entry
    results,      \* self.results
    clock,        \* seconds the main thread has slept
    interrupted,  \* whether KeyboardInterrupt was raised in the main thread
    reports,      \* the summaries generate_report printed
    files         \* the report files written

vars ==
    <<max_workers, response, pc, urls, futures, queue, worker, waiting, waiter,
      finished, pending, listed, results, clock, interrupted, reports, files>>

Workers == 1..max_workers

Range(s) == {s[i] : i \in DOMAIN s}

\* The orders in which a set can be listed.
Orders(S) ==
    {s \in [1..Cardinality(S) -> S] : \A i, j \in DOMAIN s : s[i] = s[j] => i = j}

Future(url) ==
    [url |-> url, state |-> "PENDING", calls |-> 0, outcome |-> Returned(None)]

InFlight == {i \in DOMAIN futures : futures[i].state = "RUNNING"}

\* ----------------------------------------------------------------- report
RECURSIVE Sum(_)
Sum(s) == IF s = <<>> THEN 0 ELSE Head(s) + Sum(Tail(s))

Min(s) == CHOOSE x \in Range(s) : \A y \in Range(s) : x <= y

Max(s) == CHOOSE x \in Range(s) : \A y \in Range(s) : y <= x

\* The k-th element of sorted(s).
Kth(s, k) ==
    CHOOSE x \in Range(s) :
        /\ Cardinality({i \in DOMAIN s : s[i] < x}) < k
        /\ k <= Cardinality({i \in DOMAIN s : s[i] <= x})

\* format(num / den, ".0f") for num >= 0 and den > 0: the nearest whole
\* number, a tie going to the even one.
Format0f(num, den) ==
    LET q == num \div den
        r == num % den
    IN  IF 2 * r < den THEN q
        ELSE IF 2 * r > den THEN q + 1
        ELSE IF q % 2 = 0 THEN q ELSE q + 1

\* format(count / total * 100, ".1f"), in tenths of a percent.
Percent1f(count, total) == Format0f(count * 1000, total)

\* statistics.median as a fraction <<numerator, denominator>>.
Median(s) ==
    LET n == Len(s)
    IN  IF n % 2 = 1 THEN <<Kth(s, n \div 2 + 1), 1>>
        ELSE <<Kth(s, n \div 2) + Kth(s, n \div 2 + 1), 2>>

FastLimit == 500
SlowLimit == 2000

\* A fast bucket bounded by the wrong limit.
FastUnderSlowLimit(times) == Cardinality({i \in DOMAIN times : times[i] < SlowLimit})

Fast(times) == Cardinality({i \in DOMAIN times : times[i] < FastLimit})

Medium(times) ==
    Cardinality({i \in DOMAIN times : FastLimit <= times[i] /\ times[i] < SlowLimit})

Slow(times) == Cardinality({i \in DOMAIN times : times[i] >= SlowLimit})

Successful(rs) == SelectSeq(rs, LAMBDA r : r.success)

Failed(rs) == SelectSeq(rs, LAMBDA r : ~r.success)

\* Response times taken of every result, a failed one counting as 0 ms.
ResponseTimesOfAll(rs) ==
    [i \in DOMAIN rs |-> IF rs[i].success THEN rs[i].response_time[1] ELSE 0]

ResponseTimes(rs) == [i \in DOMAIN Successful(rs) |-> Successful(rs)[i].response_time[1]]

\* The statistics block generate_report prints when some test succeeded.
Statistics(times) ==
    LET n == Len(times)
        fast == Fast(times)
        medium == Medium(times)
        slow == Slow(times)
    IN  [min |-> Format0f(Min(times), 1),
         max |-> Format0f(Max(times), 1),
         mean |-> Format0f(Sum(times), n),
         median |-> Format0f(Median(times)[1], Median(times)[2]),
         fast |-> fast, fastPct |-> Percent1f(fast, n),
         medium |-> medium, mediumPct |-> Percent1f(medium, n),
         slow |-> slow, slowPct |-> Percent1f(slow, n)]

\* What generate_report prints for a non-empty results collection.
Summary(rs) ==
    [message |-> "summary",
     total |-> Len(rs),
     successful |-> Len(Successful(rs)),
     failed |-> Len(Failed(rs)),
     statistics |->
         IF Successful(rs) # <<>> THEN Some(Statistics(ResponseTimes(rs))) ELSE None,
     failures |-> [i \in DOMAIN Failed(rs) |-> <<Failed(rs)[i].url, Failed(rs)[i].error[1]>>]]

\* What generate_report prints for an empty results collection.
NoResults == [message |-> "no results to report"]

\* One line of the report file.
FileLine(r) ==
    IF r.success THEN <<"ok", r.url, Format0f(r.response_time[1], 1)>>
    ELSE <<"failed", r.url, r.error[1]>>

\* The report file generate_report writes.
ReportFile(rs) == [pages |-> Len(rs), lines |-> [i \in DOMAIN rs |-> FileLine(rs[i])]]

\* ---------------------------------------------------------------- actions
\* What the run is given: the sitemap's answer and the tester's max_workers.
RunResponses == Responses(RunEntries, MaxUrls)

Init ==
    /\ max_workers \in 1..MaxWorkers
    /\ response \in RunResponses
    /\ pc = "run_test"
    /\ urls = <<>>
    /\ futures = <<>>
    /\ queue = <<>>
    /\ worker = [w \in 1..max_workers |-> 0]
    /\ waiting = FALSE
    /\ waiter = <<>>
    /\ finished = <<>>
    /\ pending = {}
    /\ listed = 0
    /\ results = <<>>
    /\ clock = 0
    /\ interrupted = FALSE
    /\ reports = <<>>
    /\ files = <<>>

\* run_test up to the executor: parse the sitemap, return when it gave no URL.
FetchSitemap ==
    /\ pc = "run_test"
    /\ urls' = ParseSitemap(response)
    /\ pc' = IF ParseSitemap(response) = <<>> THEN "exit" ELSE "submit"
    /\ UNCHANGED <<max_workers, response, futures, queue, worker, waiting, waiter,
                   finished, pending, listed, results, clock, interrupted, reports, files>>

\* One executor.submit of the dict comprehension: a new future, queued.
Submit ==
    /\ pc = "submit"
    /\ Len(futures) < Len(urls)
    /\ futures' = Append(futures, Future(urls[Len(futures) + 1]))
    /\ queue' = Append(queue, Len(futures) + 1)
    /\ UNCHANGED <<max_workers, response, pc, urls, worker, waiting, waiter,
                   finished, pending, listed, results, clock, interrupted, reports, files>>

\* The order in which as_completed lists the futures that are already finished
\* when it is entered: list(set), any order.
FinishedOrders(done) == Orders(done)

\* as_completed is entered: the finished futures are listed, the waiter is
\* installed on the others.
AsCompleted ==
    /\ pc = "submit"
    /\ Len(futures) = Len(urls)
    /\ LET done == {i \in DOMAIN futures : futures[i].state = "FINISHED"}
       IN  /\ finished' \in FinishedOrders(done)
           /\ pending' = DOMAIN futures \ done
           /\ listed' = Cardinality(done)
    /\ waiting' = TRUE
    /\ waiter' = <<>>
    /\ pc' = "next"
    /\ UNCHANGED <<max_workers, response, urls, futures, queue, worker, results,
                   clock, interrupted, reports, files>>

\* A results collection that keeps one result per address.
AppendResultOncePerUrl(rs, r) ==
    IF \E i \in DOMAIN rs : rs[i].url = r.url THEN rs ELSE Append(rs, r)

\* self.results.append(result)
AppendResult(rs, r) == Append(rs, r)

\* A loop body that never sleeps.
ConsumeWithoutSleep(f) ==
    IF futures[f].outcome.raised
    THEN /\ results' = results
         /\ pc' = "next"
    ELSE /\ results' = AppendResult(results, futures[f].outcome.value)
         /\ pc' = "next"

\* The body of the consumer loop for future f: append its result and, when
\* max_workers is 1, go to sleep; a raised exception is only printed.
Consume(f) ==
    IF futures[f].outcome.raised
    THEN /\ results' = results
         /\ pc' = "next"
    ELSE /\ results' = AppendResult(results, futures[f].outcome.value)
         /\ pc' = IF max_workers = 1 THEN "sleep" ELSE "next"

\* as_completed yields the next future of its list.
Yield ==
    /\ pc = "next"
    /\ finished # <<>>
    /\ finished' = Tail(finished)
    /\ pending' = pending \ {Head(finished)}
    /\ Consume(Head(finished))
    /\ UNCHANGED <<max_workers, response, urls, futures, queue, worker, waiting,
                   waiter, listed, clock, interrupted, reports, files>>

\* as_completed waits for the waiter's event, takes what finished since and
\* yields the first of it.
WaitYield ==
    /\ pc = "next"
    /\ finished = <<>>
    /\ pending # {}
    /\ waiter # <<>>
    /\ finished' = Tail(waiter)
    /\ waiter' = <<>>
    /\ pending' = pending \ {Head(waiter)}
    /\ Consume(Head(waiter))
    /\ UNCHANGED <<max_workers, response, urls, futures, queue, worker, waiting,
                   listed, clock, interrupted, reports, files>>

\* time.sleep(1) of the sequential run.
Sleep ==
    /\ pc = "sleep"
    /\ clock' = clock + 1
    /\ pc' = "next"
    /\ UNCHANGED <<max_workers, response, urls, futures, queue, worker, waiting,
                   waiter, finished, pending, listed, results, interrupted, reports, files>>

\* A loop that ends when nothing is listed and an executor left without
\* waiting for its workers.
ShutdownWithoutWaiting ==
    /\ pc = "next"
    /\ finished = <<>>
    /\ waiting' = FALSE
    /\ pc' = "report"
    /\ UNCHANGED <<max_workers, response, urls, futures, queue, worker, waiter,
                   finished, pending, listed, results, clock, interrupted, reports, files>>

\* The loop is over; the with block is left: shutdown(wait=True).
Shutdown ==
    /\ pc = "next"
    /\ finished = <<>>
    /\ pending = {}
    /\ queue = <<>>
    /\ \A w \in Workers : worker[w] = 0
    /\ waiting' = FALSE
    /\ pc' = "report"
    /\ UNCHANGED <<max_workers, response, urls, futures, queue, worker, waiter,
                   finished, pending, listed, results, clock, interrupted, reports, files>>

\* A generate_report without the early return.
GenerateReportAlways ==
    /\ reports' = Append(reports, IF results = <<>> THEN NoResults ELSE Summary(results))
    /\ files' = Append(files, ReportFile(results))
    /\ UNCHANGED <<max_workers, response, urls, futures, queue, worker, waiting,
                   waiter, finished, pending, listed, results, clock, interrupted>>

\* generate_report: nothing but a message for no results, else the summary and
\* the report file.
GenerateReport ==
    /\ IF results = <<>>
       THEN /\ reports' = Append(reports, NoResults)
            /\ files' = files
       ELSE /\ reports' = Append(reports, Summary(results))
            /\ files' = Append(files, ReportFile(results))
    /\ UNCHANGED <<max_workers, response, urls, futures, queue, worker, waiting,
                   waiter, finished, pending, listed, results, clock, interrupted>>

\* run_test's last statement.
Report ==
    /\ pc = "report"
    /\ GenerateReport
    /\ pc' = "exit"

\* A worker that reads the next work item and leaves it in the queue.
WorkerStartKeeping(w) ==
    /\ worker[w] = 0
    /\ queue # <<>>
    /\ worker' = [worker EXCEPT ![w] = Head(queue)]
    /\ queue' = queue
    /\ futures' = [futures EXCEPT ![Head(queue)].state = "RUNNING",
                                  ![Head(queue)].calls = @ + 1]
    /\ UNCHANGED <<max_workers, response, pc, urls, waiting, waiter, finished,
                   pending, listed, results, clock, interrupted, reports, files>>

\* A worker thread takes the next work item and calls test_single_url.
WorkerStart(w) ==
    /\ worker[w] = 0
    /\ queue # <<>>
    /\ worker' = [worker EXCEPT ![w] = Head(queue)]
    /\ queue' = Tail(queue)
    /\ futures' = [futures EXCEPT ![Head(queue)].state = "RUNNING",
                                  ![Head(queue)].calls = @ + 1]
    /\ UNCHANGED <<max_workers, response, pc, urls, waiting, waiter, finished,
                   pending, listed, results, clock, interrupted, reports, files>>

\* A worker that appends the result of its call to self.results itself.
WorkerFinishAppending(w) ==
    /\ worker[w] # 0
    /\ LET f == worker[w]
       IN  /\ \E outcome \in ProbeOutcomes(futures[f].url) :
                  /\ futures' = [futures EXCEPT
                                   ![f].state = "FINISHED",
                                   ![f].outcome = TestSingleUrl(futures[f].url, outcome)]
                  /\ results' = Append(results, TestSingleUrl(futures[f].url, outcome).value)
           /\ waiter' = IF waiting /\ f \in pending THEN Append(waiter, f) ELSE waiter
    /\ worker' = [worker EXCEPT ![w] = 0]
    /\ UNCHANGED <<max_workers, response, pc, urls, queue, waiting, finished,
                   pending, listed, clock, interrupted, reports, files>>

\* A worker whose finished future does not tell the waiter.
WorkerFinishUnnoticed(w) ==
    /\ worker[w] # 0
    /\ LET f == worker[w]
       IN  \E outcome \in ProbeOutcomes(futures[f].url) :
               futures' = [futures EXCEPT
                             ![f].state = "FINISHED",
                             ![f].outcome = TestSingleUrl(futures[f].url, outcome)]
    /\ worker' = [worker EXCEPT ![w] = 0]
    /\ UNCHANGED <<max_workers, response, pc, urls, queue, waiting, waiter, finished,
                   pending, listed, results, clock, interrupted, reports, files>>

\* The call of a worker is over: the future is finished and the waiter, when
\* it is installed on the future, is told.
WorkerFinish(w) ==
    /\ worker[w] # 0
    /\ LET f == worker[w]
       IN  /\ \E outcome \in ProbeOutcomes(futures[f].url) :
                  futures' = [futures EXCEPT
                                ![f].state = "FINISHED",
                                ![f].outcome = TestSingleUrl(futures[f].url, outcome)]
           /\ waiter' = IF waiting /\ f \in pending THEN Append(waiter, f) ELSE waiter
    /\ worker' = [worker EXCEPT ![w] = 0]
    /\ UNCHANGED <<max_workers, response, pc, urls, queue, waiting, finished,
                   pending, listed, results, clock, interrupted, reports, files>>

\* KeyboardInterrupt in the main thread inside the with block: the exception
\* leaves the loop and the executor's __exit__ waits for the workers.
InterruptInExecutor ==
    /\ ~interrupted
    /\ pc \in {"submit", "next", "sleep"}
    /\ interrupted' = TRUE
    /\ waiting' = FALSE
    /\ pc' = "unwind"
    /\ UNCHANGED <<max_workers, response, urls, futures, queue, worker, waiter,
                   finished, pending, listed, results, clock, reports, files>>

\* KeyboardInterrupt in run_test outside the with block: straight to main's
\* handler.
InterruptOutside ==
    /\ ~interrupted
    /\ pc \in {"run_test", "report"}
    /\ interrupted' = TRUE
    /\ pc' = "exit"
    /\ UNCHANGED <<max_workers, response, urls, futures, queue, worker, waiting,
                   waiter, finished, pending, listed, results, clock, reports, files>>

\* The executor's __exit__ with the exception pending: every queued work item
\* has run, the workers are joined, main's handler prints and main returns.
Unwind ==
    /\ pc = "unwind"
    /\ queue = <<>>
    /\ \A w \in Workers : worker[w] = 0
    /\ pc' = "exit"
    /\ UNCHANGED <<max_workers, response, urls, futures, queue, worker, waiting,
                   waiter, finished, pending, listed, results, clock, interrupted, reports,
                   files>>

Next ==
    \/ FetchSitemap
    \/ Submit
    \/ AsCompleted
    \/ Yield
    \/ WaitYield
    \/ Sleep
    \/ Shutdown
    \/ Report
    \/ \E w \in Workers : WorkerStart(w)
    \/ \E w \in Workers : WorkerFinish(w)
    \/ InterruptInExecutor
    \/ InterruptOutside
    \/ Unwind

Spec == Init /\ [][Next]_vars

\* ------------------------------------------------ the run, not interrupted
\* The steps of the main thread and of the worker threads.  Every probe
\* returns, and the threads are scheduled fairly: the main thread takes a step
\* that stays possible, and so does the pool of workers.
MainStep ==
    \/ FetchSitemap
    \/ Submit
    \/ AsCompleted
    \/ Yield
    \/ WaitYield
    \/ Sleep
    \/ Shutdown
    \/ Report

WorkerStep == \E w \in Workers : WorkerStart(w) \/ WorkerFinish(w)

NextFair == MainStep \/ WorkerStep

\* The sitemaps of these runs: a document of <url> elements with a <loc>, the
\* empty one included, or a fetch that fails.
FairResponses ==
    {r \in RunResponses :
        \/ r.kind = "exception"
        \/ /\ r.status = 200
           /\ r.body.wellformed
           /\ \A i \in DOMAIN r.body.root : r.body.root[i].loc # None}

InitFair == Init /\ response \in FairResponses

SpecFair == InitFair /\ [][NextFair]_vars /\ WF_vars(MainStep) /\ WF_vars(WorkerStep)

\* ------------------------------------------ run_test again on one tester
\* The sitemaps of these runs: a document of <url> elements that name the
\* page a, the empty one included, or a fetch that fails.
RerunResponses ==
    {r \in FairResponses :
        r.kind = "response" => \A i \in DOMAIN r.body.root : r.body.root[i].loc = Some("a")}

InitRerun == Init /\ response \in RerunResponses

\* A run_test that starts with an empty self.results.
RunAgainFresh ==
    /\ pc = "exit"
    /\ ~interrupted
    /\ Len(reports) < MaxRuns
    /\ response' \in RerunResponses
    /\ pc' = "run_test"
    /\ urls' = <<>>
    /\ futures' = <<>>
    /\ queue' = <<>>
    /\ worker' = [w \in Workers |-> 0]
    /\ waiting' = FALSE
    /\ waiter' = <<>>
    /\ finished' = <<>>
    /\ pending' = {}
    /\ listed' = 0
    /\ results' = <<>>
    /\ UNCHANGED <<max_workers, clock, interrupted, reports, files>>

\* run_test is called once more on the tester: its locals and its executor
\* are new, self.results and what was printed and written stay.
RunAgain ==
    /\ pc = "exit"
    /\ ~interrupted
    /\ Len(reports) < MaxRuns
    /\ response' \in RerunResponses
    /\ pc' = "run_test"
    /\ urls' = <<>>
    /\ futures' = <<>>
    /\ queue' = <<>>
    /\ worker' = [w \in Workers |-> 0]
    /\ waiting' = FALSE
    /\ waiter' = <<>>
    /\ finished' = <<>>
    /\ pending' = {}
    /\ listed' = 0
    /\ UNCHANGED <<max_workers, results, clock, interrupted, reports, files>>

NextRerun == MainStep \/ WorkerStep \/ RunAgain

SpecRerun == InitRerun /\ [][NextRerun]_vars

\* ------------------------------------------------- generate_report alone
\* generate_report called on a tester whose results collection is rs.
Latencies == {100, 300, 499, 500, 501, 700, 1500, 2000, 3000}

ReportResults ==
    {Result("a", Some(t), Some(200), TRUE, None) : t \in Latencies}
      \cup {Result("b", None, None, FALSE, Some(TimeoutMessage)),
            Result("c", None, None, FALSE, Some("connection refused"))}

\* The all-success result set of five latencies.
ExampleLatencies == <<100, 300, 700, 1500, 3000>>

ExampleResults ==
    [i \in DOMAIN ExampleLatencies |->
        Result("a", Some(ExampleLatencies[i]), Some(200), TRUE, None)]

InitReport ==
    /\ max_workers = 1
    /\ response = [kind |-> "exception", status |-> 0, body |-> Malformed]
    /\ pc = "report"
    /\ urls = <<>>
    /\ futures = <<>>
    /\ queue = <<>>
    /\ worker = [w \in 1..max_workers |-> 0]
    /\ waiting = FALSE
    /\ waiter = <<>>
    /\ finished = <<>>
    /\ pending = {}
    /\ listed = 0
    /\ results \in SeqsUpTo(ReportResults, MaxResults) \cup {ExampleResults}
    /\ clock = 0
    /\ interrupted = FALSE
    /\ reports = <<>>
    /\ files = <<>>

NextReport == Report

SpecReport == InitReport /\ [][NextReport]_vars

\* --------------------------------------------------- parse_sitemap alone
\* run_test up to the return of parse_sitemap, for any answer of the sitemap
\* URL: statuses of every class, and documents with <url> elements that lack
\* <loc> and with children that are no <url>.
ParseStatuses == {100, 200, 204, 301, 304, 404, 500}

ParseResponses ==
    {[kind |-> "exception", status |-> 0, body |-> Malformed]}
      \cup {[kind |-> "response", status |-> st, body |-> b] :
              st \in ParseStatuses,
              b \in {Malformed} \cup {Document(es) : es \in SeqsUpTo(Entries, MaxUrls)}}

InitParse ==
    /\ max_workers = 1
    /\ response \in ParseResponses
    /\ pc = "run_test"
    /\ urls = <<>>
    /\ futures = <<>>
    /\ queue = <<>>
    /\ worker = [w \in 1..max_workers |-> 0]
    /\ waiting = FALSE
    /\ waiter = <<>>
    /\ finished = <<>>
    /\ pending = {}
    /\ listed = 0
    /\ results = <<>>
    /\ clock = 0
    /\ interrupted = FALSE
    /\ reports = <<>>
    /\ files = <<>>

NextParse == FetchSitemap

SpecParse == InitParse /\ [][NextParse]_vars

\* ----------------------------------------------------------------- claims
CountUrl(s, u) == Cardinality({i \in DOMAIN s : s[i] = u})

CountResults(rs, u) == Cardinality({i \in DOMAIN rs : rs[i].url = u})

RunOver == pc \in {"report", "exit"} /\ ~interrupted

\* C1: absent cancellation, when run_test is over the results collection holds
\* exactly one result per occurrence of a URL in the list: as many results for
\* each address as the list has occurrences of it, and no other.
C1_OneResultPerUrl ==
    RunOver =>
        /\ Len(results) = Len(urls)
        /\ \A u \in Urls : CountResults(results, u) = CountUrl(urls, u)

C1_Witness ==
    /\ pc = "exit"
    /\ ~interrupted
    /\ max_workers = 2
    /\ urls = <<"a", "b", "a">>
    /\ Len(results) = 3

\* C2: at every moment the probes in flight are at most max_workers, and no
\* submitted probe is started more than once.
C2_BoundedInFlight ==
    /\ Cardinality(InFlight) <= max_workers
    /\ \A i \in DOMAIN futures : futures[i].calls <= 1

C2_Witness ==
    /\ max_workers = 2
    /\ Cardinality(InFlight) = 2
    /\ queue # <<>>

\* C3: with max_workers = 1 no probe begins before the one-second delay that
\* follows the previous probe has elapsed: the i-th probe has begun only when
\* i - 1 delays have elapsed.
C3_PacedStarts ==
    max_workers = 1 =>
        \A i \in DOMAIN futures : futures[i].calls > 0 => clock >= i - 1

\* C4: once KeyboardInterrupt has been raised, no probe that had not begun
\* begins.
C4_NoStartAfterInterrupt ==
    [][interrupted =>
         \A i \in DOMAIN futures : futures[i].calls = 0 => futures'[i].calls = 0]_vars

\* C5: when main has returned after an interrupt and some result had been
\* appended, generate_report has been invoked on the results.
C5_PartialResultsReported ==
    (pc = "exit" /\ interrupted /\ results # <<>>) => reports # <<>>

InInputOrderFrom(k) == \A i \in DOMAIN results : i > k => results[i].url = urls[i]

\* C6: with max_workers = 1 the results are appended in the order of the URL
\* list, whatever the timing of the probes against the consumer.
C6_InputOrder == max_workers = 1 => InInputOrderFrom(0)

\* What the sequential run does keep: the probes run one after the other in
\* the order of the list; the results of the probes that as_completed finds
\* finished when it is entered are appended first, in any order, and every
\* later result is appended at the place of its URL in the list.
InputOrderOnceWaiting ==
    max_workers = 1 =>
        /\ \A i, j \in DOMAIN futures :
               (i < j /\ futures[j].state # "PENDING") => futures[i].state = "FINISHED"
        /\ InInputOrderFrom(IF listed <= 1 THEN 0 ELSE listed)
        /\ \A u \in Urls :
               Cardinality({i \in DOMAIN results : i <= listed /\ results[i].url = u})
                 <= Cardinality({i \in DOMAIN urls : i <= listed /\ urls[i] = u})

ListedOutOfOrder ==
    /\ max_workers = 1
    /\ pc = "exit"
    /\ ~interrupted
    /\ listed = 2
    /\ urls = <<"a", "b", "c">>
    /\ results[1].url = "b"
    /\ results[2].url = "a"
    /\ results[3].url = "c"

Explains(outcome, r) ==
    IF outcome.kind = "response"
    THEN r.success /\ r.response_time = Some(outcome.ms)
                   /\ r.status_code = Some(outcome.status)
    ELSE IF outcome.kind = "Timeout"
    THEN ~r.success /\ r.error = Some(TimeoutMessage)
    ELSE ~r.success /\ r.error = Some(outcome.msg)

\* C7: test_single_url never raises: a timeout gives a failure result with
\* the timeout message, another exception a failure result with its message;
\* and a run that is not interrupted probes and records every URL of the
\* list, whichever probes fail.
C7_FailuresAreResults ==
    /\ \A i \in DOMAIN futures :
           futures[i].state = "FINISHED" =>
               /\ ~futures[i].outcome.raised
               /\ futures[i].outcome.value.url = futures[i].url
               /\ \E outcome \in ProbeOutcomes(futures[i].url) :
                      Explains(outcome, futures[i].outcome.value)
    /\ RunOver =>
           /\ Len(results) = Len(urls)
           /\ \A i \in DOMAIN urls : i \in DOMAIN futures /\ futures[i].calls = 1

C7_Witness ==
    /\ pc = "exit"
    /\ ~interrupted
    /\ Len(results) = 3
    /\ results[1].error = Some(TimeoutMessage)
    /\ results[2].error = Some("connection refused")
    /\ results[3].success

SitemapFails ==
    \/ response.kind = "exception"
    \/ RaisesForStatus(response.status)
    \/ ~response.body.wellformed

\* C8: when the sitemap cannot be fetched (the transport fails or the status
\* is an error status) or its body is malformed, no probe is ever submitted or
\* begun, the results collection stays empty, nothing is reported and no
\* report file is written.
C8_NoProbeWithoutSitemap ==
    SitemapFails =>
        /\ urls = <<>>
        /\ futures = <<>>
        /\ queue = <<>>
        /\ results = <<>>
        /\ reports = <<>>
        /\ files = <<>>
        /\ pc \in {"run_test", "exit"}

C8_Witness ==
    /\ pc = "exit"
    /\ ~interrupted
    /\ response.kind = "response"
    /\ response.status = 404
    /\ response.body.wellformed
    /\ Len(response.body.root) = 3
    /\ \A i \in DOMAIN response.body.root : response.body.root[i].loc # None

Reported == reports # <<>>

ExampleReported == results = ExampleResults /\ Reported

\* C9 as stated: for the five latencies the report gives min 100, max 3000,
\* mean 1120, median 700 and the distribution 1 (20%), 3 (60%), 1 (20%).
C9_ExampleAsStated ==
    ExampleReported =>
        reports[1].statistics =
            Some([min |-> 100, max |-> 3000, mean |-> 1120, median |-> 700,
                  fast |-> 1, fastPct |-> 200,
                  medium |-> 3, mediumPct |-> 600,
                  slow |-> 1, slowPct |-> 200])

\* C9 amended: for the five latencies the report gives min 100, max 3000,
\* mean 1120, median 700 and the distribution under 500 ms: 2 (40.0%), from
\* 500 ms to under 2000 ms: 2 (40.0%), 2000 ms and over: 1 (20.0%).
C9_Example ==
    ExampleReported =>
        /\ reports[1].total = 5
        /\ reports[1].successful = 5
        /\ reports[1].failed = 0
        /\ reports[1].statistics =
               Some([min |-> 100, max |-> 3000, mean |-> 1120, median |-> 700,
                     fast |-> 2, fastPct |-> 400,
                     medium |-> 2, mediumPct |-> 400,
                     slow |-> 1, slowPct |-> 200])

C9_Witness == ExampleReported /\ pc = "exit"

\* C10: generate_report on an empty results collection prints that there are
\* no results and writes no file; a report file is written only for a
\* results collection that is not empty, and holds all of it.
C10_NoFileWithoutResults ==
    Reported =>
        /\ results = <<>> => (reports = <<NoResults>> /\ files = <<>>)
        /\ results # <<>> => (reports[1] # NoResults /\ files = <<ReportFile(results)>>)

C10_Witness == results = <<>> /\ reports = <<NoResults>> /\ files = <<>> /\ pc = "exit"

SuccessAt == {i \in DOMAIN results : results[i].success}

FailureAt == {i \in DOMAIN results : ~results[i].success}

\* The k-th smallest member of a set of indices.
KthIndex(S, k) == CHOOSE j \in S : Cardinality({i \in S : i <= j}) = k

\* C11: the report splits the results into successful and failed ones, whose
\* counts add up to the total; the failure list holds every failed result
\* once, a timed-out one too, in the order the results were received; the
\* statistics and the distribution are those of the successful results alone.
C11_FailuresListedNotMeasured ==
    (Reported /\ results # <<>>) =>
        LET r == reports[Len(reports)]
        IN  /\ r.total = Len(results)
            /\ r.successful = Cardinality(SuccessAt)
            /\ r.failed = Cardinality(FailureAt)
            /\ r.total = r.successful + r.failed
            /\ Len(r.failures) = Cardinality(FailureAt)
            /\ \A k \in DOMAIN r.failures :
                   r.failures[k] = <<results[KthIndex(FailureAt, k)].url,
                                     results[KthIndex(FailureAt, k)].error[1]>>
            /\ (SuccessAt = {}) = (r.statistics = None)
            /\ SuccessAt # {} =>
                   LET st == r.statistics[1]
                   IN  /\ st.fast + st.medium + st.slow = Cardinality(SuccessAt)
                       /\ \E i \in SuccessAt : st.min = results[i].response_time[1]
                       /\ \A i \in SuccessAt : st.min <= results[i].response_time[1]
                       /\ \E i \in SuccessAt : st.max = results[i].response_time[1]
                       /\ \A i \in SuccessAt : results[i].response_time[1] <= st.max
                       /\ r.statistics = Summary(Successful(results)).statistics

C11_Witness ==
    /\ pc = "exit"
    /\ Reported
    /\ Len(results) = 3
    /\ results[1].error = Some("connection refused")
    /\ results[2].success
    /\ results[3].error = Some(TimeoutMessage)
    /\ reports[1].failures = <<<<"c", "connection refused">>, <<"b", TimeoutMessage>>>>

Parsed == pc # "run_test"

\* The response is one whose body parse_sitemap gets to parse, and the body
\* is a well-formed document.
DocumentRead ==
    /\ response.kind = "response"
    /\ ~(400 <= response.status /\ response.status <= 599)
    /\ response.body.wellformed

UrlAt == {i \in DOMAIN response.body.root : response.body.root[i].tag = "url"}

LocAt == {i \in UrlAt : response.body.root[i].loc # None}

\* C12: for a well-formed document parse_sitemap returns the <loc> text of
\* every <url> that has a <loc>, in document order and with duplicates kept,
\* and skips the <url> elements without one: N <url> entries of which K lack
\* <loc> give N - K URLs.
C12_LocsInDocumentOrder ==
    (Parsed /\ DocumentRead) =>
        /\ Len(urls) = Cardinality(LocAt)
        /\ Len(urls) = Cardinality(UrlAt) - Cardinality(UrlAt \ LocAt)
        /\ \A k \in DOMAIN urls : urls[k] = response.body.root[KthIndex(LocAt, k)].loc[1]

C12_Witness ==
    /\ Parsed
    /\ DocumentRead
    /\ Len(response.body.root) = 3
    /\ UrlAt = {1, 2, 3}
    /\ LocAt = {1, 3}
    /\ urls = <<"a", "a">>

\* C13: with max_workers = 1 and N URLs, when the probing of an uninterrupted
\* run is over and the report is about to be generated or has been, at least
\* N - 1 one-second delays have elapsed since the probing began.
C13_SequentialRunTakesTime ==
    (max_workers = 1 /\ RunOver) => clock >= Len(urls) - 1

C13_Witness ==
    /\ max_workers = 1
    /\ pc = "report"
    /\ Len(urls) = 3
    /\ Len(results) = 3
    /\ clock >= 2

NoUsableList == urls = <<>> /\ futures = <<>> /\ pc = "exit"

\* C14: a sitemap response with a status outside 200-299, 1xx and 3xx
\* included, is a fetch failure: parse_sitemap gives no URL and run_test
\* returns before any probe.
C14_NonSuccessStatusFails ==
    (Parsed /\ response.kind = "response"
            /\ ~(200 <= response.status /\ response.status <= 299)) => NoUsableList

\* C14 amended: a sitemap response with a 4xx or 5xx status is a fetch
\* failure: parse_sitemap gives no URL and run_test returns before any probe.
\* A response with any other status, 1xx and 3xx included, is parsed as a 2xx
\* one is: a well-formed body gives its URLs, and the run goes on to probe
\* them when there is one.
C14_ErrorStatusFails ==
    (Parsed /\ response.kind = "response") =>
        /\ (400 <= response.status /\ response.status <= 599) => NoUsableList
        /\ (response.status < 400 /\ response.body.wellformed) =>
               /\ Len(urls) = Cardinality(LocAt)
               /\ pc = IF LocAt = {} THEN "exit" ELSE "submit"

C14_Witness ==
    /\ Parsed
    /\ response.kind = "response"
    /\ response.status = 301
    /\ response.body.wellformed
    /\ urls = <<"a", "b">>
    /\ pc = "submit"

WellFormedResult(r) ==
    /\ (r.response_time # None) = r.success
    /\ r.success => (r.response_time # None /\ r.status_code # None /\ r.error = None)
    /\ ~r.success => (r.response_time = None /\ r.status_code = None /\ r.error # None)

\* C15: in every state every result of the results collection has a response
\* time exactly when it is a success: a success has a response time and a
\* status code and no error, a failure has an error and neither of the others;
\* and no step changes a result that is in the collection.
C15_ResultsWellFormedAndKept ==
    /\ [](\A i \in DOMAIN results : WellFormedResult(results[i]))
    /\ [][\A i \in DOMAIN results : i \in DOMAIN results' /\ results'[i] = results[i]]_vars

C15_Witness ==
    /\ pc = "exit"
    /\ max_workers = 2
    /\ Len(results) = 3
    /\ results[1].success
    /\ results[2].error = Some(TimeoutMessage)
    /\ results[3].error = Some("connection refused")

AllProbesOver ==
    /\ Len(futures) = Len(urls)
    /\ \A i \in DOMAIN futures : futures[i].state = "FINISHED"
    /\ queue = <<>>
    /\ InFlight = {}
    /\ \A w \in Workers : worker[w] = 0

\* C16: when generate_report starts in an uninterrupted run every probe is
\* over, none is queued or in flight, and the results collection holds the
\* result of each; from then on the results collection does not change.
C16_ReportAfterAllProbes ==
    /\ [](pc = "report" => (AllProbesOver /\ Len(results) = Len(urls)))
    /\ [][(pc \in {"report", "exit"}) => (results' = results)]_vars

C16_Witness ==
    /\ pc = "report"
    /\ max_workers = 2
    /\ Len(urls) = 3
    /\ Len(results) = 3

\* C17: when every probe returns and the threads are scheduled fairly, a run
\* that is not interrupted ends: the result of every URL of the list is
\* appended, the report is generated when there is a URL, and run_test
\* returns, for every max_workers.
C17_RunTerminates ==
    <>(/\ pc = "exit"
       /\ AllProbesOver
       /\ Len(results) = Len(urls)
       /\ urls # <<>> => reports # <<>>)

C17_Witness ==
    /\ pc = "exit"
    /\ max_workers = 2
    /\ Len(urls) = 3
    /\ Len(results) = 3
    /\ Len(reports) = 1

\* The futures as_completed has yielded to the consumer loop so far.
Yielded == DOMAIN futures \ (pending \cup Range(finished))

\* C18: self.results has a single writer.  A step that changes it is a step of
\* the consumer loop of run_test that appends the result of one finished
\* future and changes no worker and no future, so a step of a worker thread
\* leaves it alone; and inside the loop it holds one result per future
\* yielded, none lost and none twice, however the workers interleave.
C18_SingleWriter ==
    /\ []((pc \in {"next", "sleep"})
            => /\ Len(results) = Cardinality(Yielded)
               /\ \A f \in Yielded :
                     CountResults(results, futures[f].url)
                       = Cardinality({g \in Yielded : futures[g].url = futures[f].url}))
    /\ [][(results' # results)
            => /\ pc = "next"
               /\ worker' = worker
               /\ futures' = futures
               /\ \E f \in DOMAIN futures \ Yielded :
                     /\ futures[f].state = "FINISHED"
                     /\ results' = Append(results, futures[f].outcome.value)]_vars

C18_Witness ==
    /\ pc = "next"
    /\ max_workers = 2
    /\ Cardinality(InFlight) = 2
    /\ Len(results) >= 1

\* The total of the last report printed, 0 before the first one.
LastTotal == IF reports = <<>> THEN 0 ELSE reports[Len(reports)].total

\* C19: self.results is made once and never cleared.  Over run_test calls on
\* one tester no step shortens it or changes an element it holds, and the
\* report of a run counts the results of the runs before it with its own: its
\* total is the total of the report before it (0 when there is none, the runs
\* without a URL adding nothing) plus the number of URLs of the run, which is
\* the sum of the URL counts of all runs so far.
C19_ResultsAccumulate ==
    /\ []((pc = "exit" /\ urls # <<>>)
            => /\ reports # <<>>
               /\ LastTotal = Len(results)
               /\ LastTotal
                    = Len(urls) + (IF Len(reports) = 1 THEN 0
                                   ELSE reports[Len(reports) - 1].total))
    /\ [][/\ Len(results') >= Len(results)
          /\ \A i \in DOMAIN results : results'[i] = results[i]
          /\ (reports' # reports)
               => /\ Len(reports') = Len(reports) + 1
                  /\ reports'[Len(reports')].total = LastTotal + Len(urls)]_vars

C19_Witness ==
    /\ pc = "exit"
    /\ Len(reports) = 2
    /\ reports[1].total = 2
    /\ Len(urls) = 3
    /\ reports[2].total = 5
    /\ Len(results) = 5

====
